---- MODULE Spec2Model ----
(***************************************************************************)
(* Transport layer of the chat client (frontend/src/api.js):               *)
(* getBotResponseSmart, getBotResponseStreaming (SSE decoding loop) and    *)
(* getBotResponse (fetchWithRetry), for one user-initiated send, with the  *)
(* session token of getOrCreateSessionId, and the isLoading flag and the   *)
(* message list of App.jsx as handleSendMessage and its callbacks change   *)
(* them.                                                                   *)
(*                                                                         *)
(* Text on the wire is a sequence of one-character strings, so that the    *)
(* network may cut a chunk at any character.  Texts handed to callbacks    *)
(* are TLA+ strings.  The wire is ASCII, for which TextDecoder.decode      *)
(* (stream: true) returns the characters of the bytes it is given.         *)
(***************************************************************************)
EXTENDS Integers, Sequences, FiniteSets, TLC

VARIABLES
    hasOnToken,     \* typeof callbacks.onToken === 'function'
    browser,        \* the engine the page runs in: "chromium" (fetch rejects
                    \* with 'Failed to fetch', performance.memory is defined),
                    \* "other" (another message, performance.memory is not
                    \* defined), "unread" until the code first depends on it
    storageOk,      \* localStorage can be read and written (api.js:6,9)
    pc,             \* the await the send is suspended at
    nStream,        \* requests issued to /api/chat-stream
    nChat,          \* requests issued to /api/chat
    stream,         \* text the server puts on the /api/chat-stream body
    pos,            \* number of its characters already delivered by read()
    buffer,         \* api.js:134
    fullMessage,    \* api.js:135
    currentEvent,   \* api.js:136
    calls,          \* callbacks invoked so far, in order
    attempt,        \* fetchWithRetry's parameter of the running attempt
    timers,         \* 120 s abort timers that are set and neither cleared nor fired
    resp,           \* the Response the running single-shot attempt received
    hist,           \* what happened to the single-shot attempts, in order
    streamEnd,      \* how getBotResponseStreaming was left: "none" (not yet),
                    \* "setup", "read" (an exception before or while reading),
                    \* "closed" (read() returned done), "terminal" (a return
                    \* after a complete or error frame)
    isLoading,      \* App.jsx:19
    stored,         \* localStorage item 'chatSessionId': NoToken, or the
                    \* token it holds
    minted,         \* tokens generated so far (api.js:8); a token is written
                    \* as its serial number, so that two generated tokens differ
    sessionId,      \* session_id of the payload of the running call
                    \* (api.js:21-25, 106-110)
    sids,           \* the session_id values requests have carried
    sends,          \* calls of handleSendMessage so far
    messages,       \* App.jsx:18, the list shown
    indexRef,       \* App.jsx:22, streamingMessageIndexRef.current (from 0)
    longOp,         \* the 3 s timer of App.jsx:40 is set and neither cleared
                    \* nor fired
    greetingDue,    \* the 100 ms timer of App.jsx:25 has not fired yet
    placeholder     \* position in messages (from 1) of the placeholder the
                    \* running send appended, 0 when the list holds none

vars == <<hasOnToken, browser, storageOk, pc, nStream, nChat, stream, pos,
          buffer, fullMessage, currentEvent, calls, attempt, timers, resp, hist,
          streamEnd, isLoading, stored, minted, sessionId, sids, sends,
          messages, indexRef, longOp, greetingDue, placeholder>>

loopVars == <<stream, pos, buffer, fullMessage, currentEvent>>
streamVars == <<stream, pos, buffer, fullMessage, currentEvent, streamEnd>>
shotVars == <<attempt, timers, resp, hist>>
envVars == <<hasOnToken, storageOk>>
tokenVars == <<stored, minted, sessionId>>
sessVars == <<stored, minted, sessionId, sids, sends>>
refVars == <<indexRef, greetingDue, placeholder>>

----------------------------------------------------------------------------
(* Bounds of the model *)

\* Longest event stream, in frames.
MaxFrames == 2

\* Most sends of one page, where sends follow one another.
MaxSends == 2

\* Most frames without a terminal effect before the last frame of a stream,
\* where the decoding loop is examined on its own.
MaxQuietFrames == 1

----------------------------------------------------------------------------
(* JavaScript string operations on character sequences *)

LF == "\n"
Q == "\""
Null == <<"null">>
Undefined == "<undefined>"
WhiteSpace == {" ", LF, "\r", "\t"}

RECURSIVE Str(_)
\* The string made of the characters cs.
Str(cs) == IF cs = <<>> THEN "" ELSE cs[1] \o Str(Tail(cs))

\* s.startsWith(p)
StartsWith(s, p) == Len(s) >= Len(p) /\ SubSeq(s, 1, Len(p)) = p

\* s.slice(n)
Slice(s, n) == SubSeq(s, n + 1, Len(s))

RECURSIVE FirstNonSpace(_, _)
\* Index of the first character of s at or after i that is not white space,
\* Len(s) + 1 if none.
FirstNonSpace(s, i) ==
    IF i > Len(s) \/ s[i] \notin WhiteSpace THEN i ELSE FirstNonSpace(s, i + 1)

RECURSIVE LastNonSpace(_, _)
\* Index of the last character of s at or before j that is not white space,
\* 0 if none.
LastNonSpace(s, j) ==
    IF j < 1 \/ s[j] \notin WhiteSpace THEN j ELSE LastNonSpace(s, j - 1)

\* s.trim()
Trim(s) == SubSeq(s, FirstNonSpace(s, 1), LastNonSpace(s, Len(s)))

\* The least element of a non-empty set of integers.
Min(S) == CHOOSE x \in S : \A y \in S : x <= y

\* s.indexOf(c, i - 1) + 1: the index of the first c in s at or after i,
\* 0 if none.
IndexOf(s, c, i) ==
    LET at == {j \in i..Len(s) : s[j] = c} IN
    IF at = {} THEN 0 ELSE Min(at)

RECURSIVE SplitAt(_, _, _)
\* The pieces of s from index i on, nl being the indexes of its newlines
\* at or after i.
SplitAt(s, i, nl) ==
    IF nl = {} THEN <<SubSeq(s, i, Len(s))>>
    ELSE LET j == Min(nl) IN
         <<SubSeq(s, i, j - 1)>> \o SplitAt(s, j + 1, nl \ {j})

\* s.split('\n'): never empty, its last piece is what follows the last newline.
Split(s) == SplitAt(s, 1, {i \in 1..Len(s) : s[i] = LF})

----------------------------------------------------------------------------
(* Wire text *)

EVENT_PREFIX == <<"e", "v", "e", "n", "t", ":", " ">>
DATA_PREFIX == <<"d", "a", "t", "a", ":", " ">>
MESSAGE == <<"m", "e", "s", "s", "a", "g", "e">>
COMPLETE == <<"c", "o", "m", "p", "l", "e", "t", "e">>
ERROR == <<"e", "r", "r", "o", "r">>
\* An event name the loop does not know.
PING == <<"p", "i", "n", "g">>
K_TOKEN == <<"t", "o", "k", "e", "n">>
K_FULL == <<"f", "u", "l", "l", "_", "m", "e", "s", "s", "a", "g", "e">>
K_ERROR == <<"e", "r", "r", "o", "r">>

\* The JSON text {"key":"val"}.
Obj(key, val) == <<"{", Q>> \o key \o <<Q, ":", Q>> \o val \o <<Q, "}">>
EmptyObj == <<"{", "}">>
NotJSON == <<"{", "n", "o", "t", " ", "j", "s", "o", "n">>

EventLine(name) == EVENT_PREFIX \o name \o <<LF>>
DataLine(payload) == DATA_PREFIX \o payload \o <<LF>>
\* One frame: event line, data line, blank line.
Frame(name, payload) == EventLine(name) \o DataLine(payload) \o <<LF>>

----------------------------------------------------------------------------
(* JSON.parse, for the payloads the model puts on the wire: the empty      *)
(* object and an object of one string member without escapes.  Any other   *)
(* text is a SyntaxError.                                                  *)

ParseFail == [ok |-> FALSE, key |-> "", val |-> ""]

JSONParse(text) ==
    IF text = EmptyObj THEN [ok |-> TRUE, key |-> "", val |-> ""]
    ELSE IF ~StartsWith(text, <<"{", Q>>) THEN ParseFail
    ELSE LET j == IndexOf(text, Q, 3) IN
         IF j = 0 \/ Len(text) < j + 4 \/ text[j + 1] # ":" \/ text[j + 2] # Q
         THEN ParseFail
         ELSE LET m == IndexOf(text, Q, j + 3) IN
              IF m = 0 \/ Len(text) # m + 1 \/ text[m + 1] # "}"
              THEN ParseFail
              ELSE [ok |-> TRUE,
                    key |-> Str(SubSeq(text, 3, j - 1)),
                    val |-> Str(SubSeq(text, j + 3, m - 1))]

\* eventData.<name>
Field(d, name) == IF d.key = name THEN d.val ELSE Undefined

\* String(v), as += converts its right operand
ToStr(v) == IF v = Undefined THEN "undefined" ELSE v

\* a || b on strings and undefined
OrElse(a, b) == IF a # Undefined /\ a # "" THEN a ELSE b

----------------------------------------------------------------------------
(* The callbacks (App.jsx registers onComplete and onError on every send) *)

OnToken(token, soFar) == [cb |-> "onToken", a |-> token, b |-> soFar]
OnComplete(text) == [cb |-> "onComplete", a |-> text, b |-> Undefined]
OnError(text) == [cb |-> "onError", a |-> text, b |-> Undefined]

Terminal(c) == c.cb \in {"onComplete", "onError"}

\* Number of terminal callbacks in a sequence of calls.
RECURSIVE NTerminal(_)
NTerminal(cs) ==
    IF cs = <<>> THEN 0
    ELSE (IF Terminal(cs[1]) THEN 1 ELSE 0) + NTerminal(Tail(cs))

----------------------------------------------------------------------------
(* The SSE decoding loop of getBotResponseStreaming.  A decoder state is   *)
(* [full, ev, calls, ret]: fullMessage, currentEvent, the callbacks made,  *)
(* and whether the function has returned.                                  *)

\* api.js:134-136, the loop's variables before the first read
FreshDecoder == [full |-> "", ev |-> Null, calls |-> <<>>, ret |-> FALSE]

\* Dispatch with the test of line 168 left out: a payload under any event name
\* other than complete and error is taken for a token.
DispatchElseMessage(st, d) ==
    IF st.ev = COMPLETE
    THEN [st EXCEPT !.calls = Append(@, OnComplete(OrElse(Field(d, "full_message"), st.full))),
                    !.ret = TRUE]
    ELSE IF st.ev = ERROR
    THEN [st EXCEPT !.calls = Append(@, OnError(OrElse(Field(d, "error"), "Unknown streaming error"))),
                    !.ret = TRUE]
    ELSE LET f == st.full \o ToStr(Field(d, "token")) IN
         [st EXCEPT !.full = f,
                    !.calls = Append(@, OnToken(Field(d, "token"), f))]

\* Dispatch with the || defaults of lines 173 and 177 left out: the terminal
\* callbacks receive the payload's member, present or not.
DispatchNoDefaults(st, d) ==
    IF st.ev = MESSAGE
    THEN LET f == st.full \o ToStr(Field(d, "token")) IN
         [st EXCEPT !.full = f,
                    !.calls = Append(@, OnToken(Field(d, "token"), f))]
    ELSE IF st.ev = COMPLETE
    THEN [st EXCEPT !.calls = Append(@, OnComplete(Field(d, "full_message"))),
                    !.ret = TRUE]
    ELSE IF st.ev = ERROR
    THEN [st EXCEPT !.calls = Append(@, OnError(Field(d, "error"))),
                    !.ret = TRUE]
    ELSE st

\* api.js:168-179, the dispatch on currentEvent of a parsed data payload
Dispatch(st, d) ==
    IF st.ev = MESSAGE
    THEN LET f == st.full \o ToStr(Field(d, "token")) IN
         [st EXCEPT !.full = f,
                    !.calls = Append(@, OnToken(Field(d, "token"), f))]
    ELSE IF st.ev = COMPLETE
    THEN [st EXCEPT !.calls = Append(@, OnComplete(OrElse(Field(d, "full_message"), st.full))),
                    !.ret = TRUE]
    ELSE IF st.ev = ERROR
    THEN [st EXCEPT !.calls = Append(@, OnError(OrElse(Field(d, "error"), "Unknown streaming error"))),
                    !.ret = TRUE]
    ELSE st

\* DataLineStep without the try of line 163: the SyntaxError of JSON.parse
\* reaches the catch of line 189.
DataLineStepNoTry(st, line) ==
    LET d == JSONParse(Slice(line, 6)) IN
    IF d.ok THEN Dispatch(st, d)
    ELSE [st EXCEPT !.calls = Append(@, OnError("Unexpected token n in JSON at position 1")),
                    !.ret = TRUE]

\* api.js:162-183, a data: line; a payload that does not parse is skipped
DataLineStep(st, line) ==
    LET d == JSONParse(Slice(line, 6)) IN
    IF d.ok THEN Dispatch(st, d) ELSE st

\* api.js:151-183, one iteration of the for loop
ProcessLine(st, raw) ==
    LET line == Trim(raw) IN
    IF line = <<>> THEN st
    ELSE IF StartsWith(line, EVENT_PREFIX)
    THEN [st EXCEPT !.ev = Trim(Slice(line, 7))]
    ELSE IF StartsWith(line, DATA_PREFIX) THEN DataLineStep(st, line)
    ELSE st

\* api.js:150, the lines of the split buffer the for loop visits
LoopLines(lines) == lines

RECURSIVE ProcessLinesNoReturn(_, _, _)
\* ProcessLines with the returns of lines 174 and 178 left out: the for loop
\* goes on after a terminal frame.
ProcessLinesNoReturn(st, lines, i) ==
    IF i > Len(lines) THEN st
    ELSE ProcessLinesNoReturn(ProcessLine(st, lines[i]), lines, i + 1)

RECURSIVE ProcessLines(_, _, _)
\* api.js:150-184, the for loop from index i, left by the returns of 174 and 178
ProcessLines(st, lines, i) ==
    IF i > Len(lines) \/ st.ret THEN st
    ELSE ProcessLines(ProcessLine(st, lines[i]), lines, i + 1)

\* api.js:147-187, the body of the while loop for one chunk:
\* [st, buffer] after it
OnChunk(st, buf, chunk) ==
    LET text == buf \o chunk
        lines == Split(text)
    IN [st |-> ProcessLines(st, LoopLines(lines), 1),
        buffer |-> lines[Len(lines)]]

----------------------------------------------------------------------------
(* Inputs: what the server may put on the /api/chat-stream body *)

HEL == <<"H", "e", "l">>
LO == <<"l", "o">>
HELLO == <<"H", "e", "l", "l", "o">>
BOOM == <<"b", "o", "o", "m">>

FrameKinds ==
    { Frame(MESSAGE, Obj(K_TOKEN, HEL)),
      Frame(MESSAGE, Obj(K_TOKEN, LO)),
      Frame(COMPLETE, Obj(K_FULL, HELLO)),
      Frame(ERROR, Obj(K_ERROR, BOOM)),
      DataLine(NotJSON) \o <<LF>> }

RECURSIVE StreamsOf(_)
\* The streams of exactly n frames.
StreamsOf(n) ==
    IF n = 0 THEN {<<>>}
    ELSE {s \o f : s \in StreamsOf(n - 1), f \in FrameKinds}

Streams == UNION {StreamsOf(n) : n \in 0..MaxFrames}

----------------------------------------------------------------------------
(* Error messages *)

FailedToFetch == "Failed to fetch"
OtherNetworkError == "NetworkError when attempting to fetch resource."
StorageError == "The operation is insecure."
NoBodyError == "Cannot read properties of null (reading 'getReader')"
NoMemoryError ==
    "Cannot read properties of undefined (reading 'usedJSHeapSize')"
JsonSyntaxError == "Unexpected token < in JSON at position 0"
ConnectionLost == "network error"
InnerTimeoutMsg == "This operation is taking longer than expected. Please try a simpler query."
TimeoutMsg == "The request is taking longer than expected. Complex queries may take up to 2 minutes."
NetworkMsg == "Network connection issue. Please check your connection and try again."
ServiceMsg == "Service temporarily unavailable. Please try again shortly."
GenericMsg == "Sorry, I encountered an issue processing your request. Please try again."

\* Messages a server may put in an error body.
ServerMsgs == {"overloaded", "Failed to fetch incident", "upstream timed out"}

StatusError(status) == "Error: " \o ToString(status)
BackendStatusError(status) == "Backend error: " \o ToString(status)
HttpError(status) == "HTTP error! status: " \o ToString(status)

Statuses == {200, 400, 503}

\* The message of the TypeError fetch rejects with in browser b.
FetchRejectMsg(b) == IF b = "chromium" THEN FailedToFetch ELSE OtherNetworkError

\* message.includes(needle), on the messages of the model
IncludesFailedToFetch(m) == m \in {FailedToFetch, "Failed to fetch incident"}
IncludesTimedOut(m) == m \in {"upstream timed out"}
IncludesLongerThanExpected(m) == m \in {InnerTimeoutMsg, TimeoutMsg}
IncludesBackendError(m) == m \in {BackendStatusError(st) : st \in Statuses}

----------------------------------------------------------------------------
(* State after construction: getBotResponseSmart has not been called yet.  *)

NoResp == [status |-> 0, json |-> FALSE, reply |-> Undefined,
           error |-> Undefined, detail |-> Undefined]

\* localStorage.getItem('chatSessionId') of a page that stored no token
\* (api.js:6-7)
NoToken == 0

\* App.jsx:26, the greeting
GreetingMsg ==
    [sender |-> "bot",
     text |-> "Hello! I am your ServiceNow Assistant. How can I help you today?",
     typing |-> FALSE]

\* App.jsx:34-35, the messages a send appends
UserMsg == [sender |-> "user", text |-> "hi there", typing |-> FALSE]
ThinkingMsg == [sender |-> "bot", text |-> "", typing |-> TRUE]

\* App.jsx:22, useRef(-1)
NoIndex == -1

\* The state in which localStorage holds the token k, or none, the list
\* shown is ms and the greeting is still due or not.
InitPage(k, ms, due) ==
    /\ hasOnToken \in BOOLEAN
    /\ browser = "unread"
    /\ storageOk \in BOOLEAN
    /\ pc = "idle"
    /\ nStream = 0
    /\ nChat = 0
    /\ stream = <<>>
    /\ pos = 0
    /\ buffer = <<>>
    /\ fullMessage = ""
    /\ currentEvent = Null
    /\ calls = <<>>
    /\ attempt = 0
    /\ timers = {}
    /\ resp = NoResp
    /\ hist = <<>>
    /\ streamEnd = "none"
    /\ isLoading = FALSE
    /\ stored = k
    /\ minted = k
    /\ sessionId = NoToken
    /\ sids = {}
    /\ sends = 0
    /\ messages = ms
    /\ indexRef = NoIndex
    /\ longOp = FALSE
    /\ greetingDue = due
    /\ placeholder = 0

\* The state in which localStorage holds the token k, or none, and the page
\* has shown its greeting.
InitWith(k) == InitPage(k, <<GreetingMsg>>, FALSE)

\* A page opened for the first time: no token is stored yet.
Init == InitWith(NoToken)

\* The code depends on the browser: it is the one it has been, or a step
\* that reads it first finds which it is.
ObserveBrowser ==
    browser' \in (IF browser = "unread" THEN {"chromium", "other"} ELSE {browser})

----------------------------------------------------------------------------
(* getOrCreateSessionId, where localStorage can be used: [id, stored,      *)
(* minted] are the value returned, the item stored and the number of       *)
(* tokens generated after the call.                                        *)

\* api.js:8-9, a token is generated (Date.now() and Math.random() make it
\* differ from those generated before) and stored
NewSessionId ==
    [id |-> minted + 1, stored |-> minted + 1, minted |-> minted + 1]

\* GetOrCreateSessionId with the test of line 7 left out: a token is
\* generated and stored on every call.
GetOrCreateSessionIdAlways == NewSessionId

\* api.js:5-12
GetOrCreateSessionId ==
    IF stored # NoToken
    THEN [id |-> stored, stored |-> stored, minted |-> minted]
    ELSE NewSessionId

\* api.js:21-25 and 106-110: const sessionId = getOrCreateSessionId(), the
\* session_id of the payload
BuildPayload ==
    LET t == GetOrCreateSessionId IN
    /\ sessionId' = t.id
    /\ stored' = t.stored
    /\ minted' = t.minted

----------------------------------------------------------------------------
(* The callbacks of App.jsx:44-59 on the message list *)

\* StreamingIndex one too low: the index of the user's message.
StreamingIndexOffByOne(ms) == Len(ms)

\* App.jsx:38, streamingMessageIndexRef.current = messages.length + 1
StreamingIndex(ms) == Len(ms) + 1

\* App.jsx:47, 51, 56: what the callback c puts in the place of message m
Rewritten(m, c) ==
    IF c.cb = "onToken" THEN [m EXCEPT !.text = c.b, !.typing = TRUE]
    ELSE IF c.cb = "onComplete"
    THEN [sender |-> "bot", text |-> c.a, typing |-> FALSE]
    ELSE [sender |-> "error", text |-> c.a, typing |-> FALSE]

\* App.jsx:47, 51, 56: prev.map(...), the list after callback c with the
\* index idx (from 0) in streamingMessageIndexRef
ApplyCall(ms, idx, c) ==
    [i \in DOMAIN ms |-> IF i - 1 = idx THEN Rewritten(ms[i], c) ELSE ms[i]]

RECURSIVE ApplyCalls(_, _, _)
\* The list after the callbacks cs, in order.
ApplyCalls(ms, idx, cs) ==
    IF cs = <<>> THEN ms
    ELSE ApplyCalls(ApplyCall(ms, idx, Head(cs)), idx, Tail(cs))

\* The callbacks a step makes.
NewCalls == SubSeq(calls', Len(calls) + 1, Len(calls'))

\* App.jsx:44-59, the effect on the page of the callbacks a step makes: each
\* clears the 3 s timer and rewrites the list
UiCallbacks ==
    /\ messages' = ApplyCalls(messages, indexRef, NewCalls)
    /\ longOp' = (longOp /\ NewCalls = <<>>)
    /\ UNCHANGED refVars

----------------------------------------------------------------------------
(* getBotResponseSmart's use of getBotResponse's result; the callbacks of  *)
(* App.jsx:50-58 end isLoading.                                            *)

\* api.js:213-215, 225-227: getBotResponse resolved with reply
SmartResolved(reply) ==
    /\ calls' = Append(calls, OnComplete(reply))
    /\ isLoading' = FALSE
    /\ pc' = "done"

\* api.js:216-218, 228-230: getBotResponse rejected with an error of message m
SmartRejected(m) ==
    /\ calls' = Append(calls, OnError(m))
    /\ isLoading' = FALSE
    /\ pc' = "done"

----------------------------------------------------------------------------
(* getBotResponse and fetchWithRetry *)

\* api.js:74, attempts below this index are retried
RetryLimit == 1

\* api.js:88-99, the message getBotResponse rejects with when fetchWithRetry
\* threw an error of message m
MapError(m) ==
    IF IncludesTimedOut(m) \/ IncludesLongerThanExpected(m) THEN TimeoutMsg
    ELSE IF IncludesFailedToFetch(m) THEN NetworkMsg
    ELSE IF IncludesBackendError(m) THEN ServiceMsg
    ELSE GenericMsg

\* api.js:28-42, fetchWithRetry(n) up to its await of fetch
FetchWithRetry(n) ==
    /\ attempt' = n
    /\ timers' = timers \cup {n}
    /\ nChat' = nChat + 1
    /\ sids' = sids \cup {sessionId'}
    /\ pc' = "chat_fetch"

\* api.js:14-42, getBotResponse up to the first await; getOrCreateSessionId
\* (line 21) throws outside the try of line 85 when storage cannot be used
GetBotResponseStart ==
    IF storageOk
    THEN /\ BuildPayload
         /\ FetchWithRetry(0)
         /\ UNCHANGED <<calls, resp, hist>>
    ELSE /\ SmartRejected(StorageError)
         /\ UNCHANGED <<nChat, attempt, timers, resp, hist, tokenVars, sids>>

\* ShouldRetry with the retry left out.
ShouldRetryNever(m) == FALSE

\* api.js:74, whether the catch of fetchWithRetry retries an error of message m
ShouldRetry(m) == attempt < RetryLimit /\ IncludesFailedToFetch(m)

\* Caught with the test of line 69 left out: an aborted fetch is handled as
\* any other rejection, and its message does not say 'Failed to fetch', or
\* says it where the engine words it so.
CaughtAbortUntested(abort, m, what) ==
    /\ timers' = timers \ {attempt}
    /\ hist' = Append(hist, [attempt |-> attempt, what |-> what, msg |-> m])
    /\ IF attempt < RetryLimit /\ (abort \/ IncludesFailedToFetch(m))
       THEN pc' = "chat_backoff" /\ UNCHANGED <<calls, isLoading>>
       ELSE SmartRejected(MapError(m))

\* Caught with the clearTimeout of line 67 left out: the timer of the attempt
\* is gone only when it has fired.
CaughtNoClear(abort, m, what) ==
    /\ timers' = IF abort THEN timers \ {attempt} ELSE timers
    /\ hist' = Append(hist, [attempt |-> attempt, what |-> what, msg |-> m])
    /\ IF abort THEN SmartRejected(MapError(InnerTimeoutMsg))
       ELSE IF ShouldRetry(m)
       THEN pc' = "chat_backoff" /\ UNCHANGED <<calls, isLoading>>
       ELSE SmartRejected(MapError(m))

\* api.js:66-82, the catch of fetchWithRetry for an error of message m
\* (abort: its name is AbortError), recorded in hist as what
Caught(abort, m, what) ==
    /\ timers' = timers \ {attempt}
    /\ hist' = Append(hist, [attempt |-> attempt, what |-> what, msg |-> m])
    /\ IF abort THEN SmartRejected(MapError(InnerTimeoutMsg))
       ELSE IF ShouldRetry(m)
       THEN pc' = "chat_backoff" /\ UNCHANGED <<calls, isLoading>>
       ELSE SmartRejected(MapError(m))

\* api.js:32, fetch rejects: the connection could not be established
ChatFetchReject ==
    /\ pc = "chat_fetch"
    /\ ObserveBrowser
    /\ Caught(FALSE, FetchRejectMsg(browser'), "rejected")
    /\ UNCHANGED <<envVars, sessVars, streamVars, nStream, nChat, attempt, resp>>
    /\ UiCallbacks

\* api.js:29, the 120 s timer fires while fetch is pending: controller.abort()
\* makes fetch reject with an AbortError
ChatTimeout ==
    /\ pc = "chat_fetch"
    /\ attempt \in timers
    /\ Caught(TRUE, "The user aborted a request.", "timeout")
    /\ UNCHANGED <<browser, envVars, sessVars, streamVars, nStream, nChat,
                   attempt, resp>>
    /\ UiCallbacks

\* Responses of /api/chat: a status and a body that is JSON or not, with at
\* most one of the members reply, error, detail.
Bodies ==
    {NoResp, [NoResp EXCEPT !.json = TRUE]}
    \cup {[NoResp EXCEPT !.json = TRUE, !.reply = m] : m \in {"hi"} \cup ServerMsgs}
    \cup {[NoResp EXCEPT !.json = TRUE, !.error = m] : m \in ServerMsgs}
    \cup {[NoResp EXCEPT !.json = TRUE, !.detail = m] : m \in ServerMsgs}

\* api.js:32-49, fetch resolves with a Response; line 47 reads
\* performance.memory.usedJSHeapSize, a TypeError where performance.memory
\* is not defined
ChatFetchResponse ==
    /\ pc = "chat_fetch"
    /\ ObserveBrowser
    /\ \E st \in Statuses, b \in Bodies :
        /\ resp' = [b EXCEPT !.status = st]
        /\ IF browser' = "chromium"
           THEN /\ timers' = timers \ {attempt}
                /\ hist' = Append(hist, [attempt |-> attempt, what |-> "response",
                                         msg |-> ToString(st)])
                /\ pc' = "chat_json"
                /\ UNCHANGED <<calls, isLoading>>
           ELSE Caught(FALSE, NoMemoryError, "response")
    /\ UNCHANGED <<envVars, sessVars, streamVars, nStream, nChat, attempt>>
    /\ UiCallbacks

\* response.ok
RespOk(r) == r.status >= 200 /\ r.status < 300

\* api.js:51-61, the error thrown for a response that is not ok
NotOkError(r) ==
    IF r.status >= 400 /\ r.status < 500
    THEN OrElse(r.reply, OrElse(r.error, StatusError(r.status)))
    ELSE OrElse(r.detail, OrElse(r.error, BackendStatusError(r.status)))

\* api.js:51-64 and 86-87, response.json() settles
ChatJson ==
    /\ pc = "chat_json"
    /\ IF ~RespOk(resp)
       THEN Caught(FALSE, NotOkError(resp), "thrown")
       ELSE IF ~resp.json THEN Caught(FALSE, JsonSyntaxError, "thrown")
       ELSE SmartResolved(resp.reply) /\ UNCHANGED <<timers, hist>>
    /\ UNCHANGED <<browser, envVars, sessVars, streamVars, nStream, nChat,
                   attempt, resp>>
    /\ UiCallbacks

\* api.js:76-77, the backoff timer fires and fetchWithRetry(attempt + 1) runs
ChatBackoffDone ==
    /\ pc = "chat_backoff"
    /\ UNCHANGED <<browser, envVars, tokenVars, sends, streamVars, nStream,
                   calls, isLoading, resp, hist>>
    /\ FetchWithRetry(attempt + 1)
    /\ UiCallbacks

----------------------------------------------------------------------------
(* getBotResponseStreaming *)

\* StreamCatch with a retry in place of the report: the send starts over and
\* requests the stream again.
StreamCatchRestart(m) ==
    /\ pc' = "idle"
    /\ UNCHANGED <<calls, isLoading>>

\* api.js:189-192, the catch of getBotResponseStreaming for an error of
\* message m: the function then returns normally
StreamCatch(m) ==
    /\ calls' = Append(calls, OnError(m))
    /\ isLoading' = FALSE
    /\ pc' = "done"

\* api.js:115, fetch to /api/chat-stream rejects
StreamFetchReject ==
    /\ pc = "stream_fetch"
    /\ ObserveBrowser
    /\ StreamCatch(FetchRejectMsg(browser'))
    /\ streamEnd' = "setup"
    /\ UNCHANGED <<envVars, sessVars, loopVars, shotVars, nStream, nChat>>
    /\ UiCallbacks

\* api.js:128-132, the response is not ok, or it is and has no body to read
StreamSetupFail ==
    /\ pc = "stream_fetch"
    /\ \/ \E st \in Statuses : st # 200 /\ StreamCatch(HttpError(st))
       \/ StreamCatch(NoBodyError)
    /\ streamEnd' = "setup"
    /\ UNCHANGED <<browser, envVars, sessVars, loopVars, shotVars, nStream, nChat>>
    /\ UiCallbacks

\* api.js:128-138, the response is ok and its body, one of bodies, is about
\* to be read
StreamOpenOf(bodies) ==
    /\ pc = "stream_fetch"
    /\ \E s \in bodies : stream' = s
    /\ pos' = 0
    /\ buffer' = <<>>
    /\ fullMessage' = FreshDecoder.full
    /\ currentEvent' = FreshDecoder.ev
    /\ pc' = "stream_read"
    /\ UNCHANGED <<browser, envVars, sessVars, shotVars, nStream, nChat, calls,
                   isLoading, streamEnd>>
    /\ UiCallbacks

StreamOpen == StreamOpenOf(Streams)

\* api.js:141-188, reader.read() resolves with the next k characters
StreamChunkOf(wholeLines) ==
    /\ pc = "stream_read"
    /\ \E k \in 1..(Len(stream) - pos) :
        /\ wholeLines => stream[pos + k] = LF
        /\ LET chunk == SubSeq(stream, pos + 1, pos + k)
               r == OnChunk([full |-> fullMessage, ev |-> currentEvent,
                             calls |-> calls, ret |-> FALSE], buffer, chunk)
           IN /\ pos' = pos + k
              /\ fullMessage' = r.st.full
              /\ currentEvent' = r.st.ev
              /\ calls' = r.st.calls
              /\ buffer' = IF r.st.ret THEN buffer \o chunk ELSE r.buffer
              /\ pc' = IF r.st.ret THEN "done" ELSE "stream_read"
              /\ streamEnd' = IF r.st.ret THEN "terminal" ELSE streamEnd
              /\ isLoading' = IF r.st.ret THEN FALSE ELSE isLoading
    /\ UNCHANGED <<browser, envVars, sessVars, shotVars, nStream, nChat, stream>>
    /\ UiCallbacks

\* api.js:141-187, a chunk of any size
StreamChunk == StreamChunkOf(FALSE)

\* api.js:141-145, reader.read() resolves with done: the loop is left and the
\* function returns
StreamDone ==
    /\ pc = "stream_read"
    /\ pos = Len(stream)
    /\ pc' = "done"
    /\ streamEnd' = "closed"
    /\ UNCHANGED <<browser, envVars, sessVars, loopVars, shotVars, nStream, nChat,
                   calls, isLoading>>
    /\ UiCallbacks

\* api.js:141, reader.read() rejects: the connection broke
StreamReadFail ==
    /\ pc = "stream_read"
    /\ StreamCatch(ConnectionLost)
    /\ streamEnd' = "read"
    /\ UNCHANGED <<browser, envVars, sessVars, loopVars, shotVars, nStream, nChat>>
    /\ UiCallbacks

----------------------------------------------------------------------------
(* getBotResponseSmart *)

\* UseStreaming with the test of line 203 left out: streaming is always tried.
UseStreamingAlways == TRUE

\* api.js:203, typeof callbacks.onToken === 'function'
UseStreaming == hasOnToken

\* api.js:104-122, getBotResponseStreaming up to its await of fetch
StreamingStart ==
    /\ BuildPayload
    /\ nStream' = nStream + 1
    /\ sids' = sids \cup {sessionId'}
    /\ pc' = "stream_fetch"
    /\ UNCHANGED <<nChat, calls, shotVars>>

\* api.js:208-219, getBotResponseStreaming rejected: the single-shot call
Fallback == GetBotResponseStart /\ UNCHANGED nStream

\* App.jsx:31-66 and api.js:197-232, handleSendMessage and its call of
\* getBotResponseSmart up to the first await of the network: isLoading is set
\* (App.jsx:32) and stays set unless a terminal callback ran already.
\* getOrCreateSessionId (line 106) is outside the try of line 112: when it
\* throws, getBotResponseStreaming rejects before any request.
SmartStart ==
    /\ pc = "idle"
    /\ sends' = sends + 1
    /\ IF UseStreaming
       THEN IF storageOk THEN StreamingStart ELSE Fallback
       ELSE GetBotResponseStart /\ UNCHANGED nStream
    /\ isLoading' = (NTerminal(calls') = 0)
    /\ messages' = ApplyCalls(messages \o <<UserMsg, ThinkingMsg>>,
                              StreamingIndex(messages), NewCalls)
    /\ indexRef' = StreamingIndex(messages)
    /\ longOp' = (NewCalls = <<>>)
    /\ placeholder' = Len(messages) + 2
    /\ UNCHANGED <<browser, envVars, streamVars, greetingDue>>

----------------------------------------------------------------------------

Next ==
    \/ SmartStart
    \/ StreamFetchReject
    \/ StreamSetupFail
    \/ StreamOpen
    \/ StreamChunk
    \/ StreamDone
    \/ StreamReadFail
    \/ ChatFetchReject
    \/ ChatTimeout
    \/ ChatFetchResponse
    \/ ChatJson
    \/ ChatBackoffDone

Spec == Init /\ [][Next]_vars

----------------------------------------------------------------------------
(* Sends that follow one another on one page.  The session token does not  *)
(* depend on what a stream carries: the bodies are the streams of at most  *)
(* one frame.                                                              *)

SessionStreams == StreamsOf(0) \cup StreamsOf(1)

SessionStreamOpen == StreamOpenOf(SessionStreams)

\* The input never disabled.
DisabledNever == FALSE

\* App.jsx:103, disabled={isLoading}
Disabled == isLoading

\* ChatInput.jsx:9-19, the send before is over and the input is enabled
\* again (disabled = isLoading): the user submits the next message.  The
\* locals of the send before are gone and the records of the model start
\* anew; a caller may pass other callbacks.
NewSend ==
    /\ pc # "idle"
    /\ ~Disabled
    /\ sends < MaxSends
    /\ hasOnToken' \in BOOLEAN
    /\ pc' = "idle"
    /\ nStream' = 0
    /\ nChat' = 0
    /\ stream' = <<>>
    /\ pos' = 0
    /\ buffer' = <<>>
    /\ fullMessage' = ""
    /\ currentEvent' = Null
    /\ calls' = <<>>
    /\ attempt' = 0
    /\ resp' = NoResp
    /\ hist' = <<>>
    /\ streamEnd' = "none"
    /\ UNCHANGED <<browser, storageOk, timers, isLoading, sessVars, messages,
                   longOp, refVars>>

\* A page opened for the first time, or one that stored a token before.
SessionInit == \E k \in {NoToken, 1} : InitWith(k)

SessionNext ==
    \/ SmartStart
    \/ StreamFetchReject
    \/ StreamSetupFail
    \/ SessionStreamOpen
    \/ StreamChunk
    \/ StreamDone
    \/ StreamReadFail
    \/ ChatFetchReject
    \/ ChatTimeout
    \/ ChatFetchResponse
    \/ ChatJson
    \/ ChatBackoffDone
    \/ NewSend

SessionSpec == SessionInit /\ [][SessionNext]_vars

----------------------------------------------------------------------------
(* The page from its first render: the list is empty until the greeting's  *)
(* timer fires, and the user may send before that.                         *)

\* App.jsx:24-29, the greeting's timer fires: the list is replaced
ShowGreeting ==
    /\ greetingDue
    /\ greetingDue' = FALSE
    /\ messages' = <<GreetingMsg>>
    /\ placeholder' = 0
    /\ UNCHANGED <<hasOnToken, browser, storageOk, pc, nStream, nChat, stream,
                   pos, buffer, fullMessage, currentEvent, calls, attempt,
                   timers, resp, hist, streamEnd, isLoading, sessVars,
                   indexRef, longOp>>

\* App.jsx:40-42, the 3 s timer fires: an empty message at the index of
\* streamingMessageIndexRef reads "Connecting..."
LongOpTimer ==
    /\ longOp
    /\ longOp' = FALSE
    /\ messages' = [i \in DOMAIN messages |->
                        IF i - 1 = indexRef /\ messages[i].text = ""
                        THEN [messages[i] EXCEPT !.text = "Connecting..."]
                        ELSE messages[i]]
    /\ UNCHANGED <<hasOnToken, browser, storageOk, pc, nStream, nChat, stream,
                   pos, buffer, fullMessage, currentEvent, calls, attempt,
                   timers, resp, hist, streamEnd, isLoading, sessVars,
                   refVars>>

\* App.jsx:18, useState([]): the first render, before the greeting
UiInit == InitPage(NoToken, <<>>, TRUE)

\* The bodies the page is sent: none, a token and the reply, an error.
UiStreams ==
    { <<>>,
      Frame(MESSAGE, Obj(K_TOKEN, HEL)) \o Frame(COMPLETE, Obj(K_FULL, HELLO)),
      Frame(MESSAGE, Obj(K_TOKEN, HEL)) \o Frame(ERROR, Obj(K_ERROR, BOOM)) }

UiStreamOpen == StreamOpenOf(UiStreams)

\* api.js:141-187, a chunk that ends where a line ends
UiStreamChunk == StreamChunkOf(TRUE)

UiNext ==
    \/ SmartStart
    \/ StreamFetchReject
    \/ StreamSetupFail
    \/ UiStreamOpen
    \/ UiStreamChunk
    \/ StreamDone
    \/ StreamReadFail
    \/ ChatFetchReject
    \/ ChatTimeout
    \/ ChatFetchResponse
    \/ ChatJson
    \/ ChatBackoffDone
    \/ NewSend
    \/ ShowGreeting
    \/ LongOpTimer

UiSpec == UiInit /\ [][UiNext]_vars

----------------------------------------------------------------------------
(* The decoding loop on its own: storage works, onToken is registered, the *)
(* request is answered 200 and the body is read to its end.  A body is a   *)
(* few frames without a terminal effect and one last frame of any kind.    *)

\* A frame without an event: line of its own.
DataOnly(payload) == DataLine(payload) \o <<LF>>

QuietKinds ==
    { Frame(MESSAGE, Obj(K_TOKEN, HEL)),
      Frame(PING, Obj(K_TOKEN, HEL)),
      DataOnly(Obj(K_TOKEN, LO)) }

TerminalKinds ==
    { Frame(COMPLETE, Obj(K_FULL, HELLO)),
      Frame(COMPLETE, Obj(K_FULL, <<>>)),
      Frame(COMPLETE, EmptyObj),
      Frame(ERROR, Obj(K_ERROR, BOOM)),
      Frame(ERROR, EmptyObj) }

RECURSIVE QuietStreamsOf(_)
\* The streams of exactly n quiet frames.
QuietStreamsOf(n) ==
    IF n = 0 THEN {<<>>}
    ELSE {s \o f : s \in QuietStreamsOf(n - 1), f \in QuietKinds}

QuietStreams == UNION {QuietStreamsOf(n) : n \in 0..MaxQuietFrames}

DecoderStreams ==
    {s \o f : s \in QuietStreams, f \in QuietKinds \cup TerminalKinds \cup {<<>>}}

DecoderStreamOpen == StreamOpenOf(DecoderStreams)

DecoderInit == InitWith(NoToken) /\ hasOnToken /\ storageOk

DecoderNext ==
    \/ SmartStart
    \/ DecoderStreamOpen
    \/ StreamChunk
    \/ StreamDone

DecoderSpec == DecoderInit /\ [][DecoderNext]_vars

----------------------------------------------------------------------------
(* Properties *)

\* The terminal callbacks among the calls made.
Terminals == SelectSeq(calls, Terminal)

\* The callbacks of decoding text s delivered as one chunk.
DecodeWhole(s) == OnChunk(FreshDecoder, <<>>, s).st.calls

\* C1: when a getBotResponseSmart call has settled, exactly one of
\* onComplete / onError has been invoked, never zero and never two.
C1_ExactlyOneTerminalWhenSettled ==
    pc = "done" => NTerminal(calls) = 1

\* C2: at most one terminal callback has fired, and a terminal callback is
\* the last callback of the send: none (onToken, onComplete, onError) follows it.
C2_TerminalOnceAndLast ==
    /\ NTerminal(calls) <= 1
    /\ \A i \in DOMAIN calls : Terminal(calls[i]) => i = Len(calls)

\* C2 witness: a complete frame and a message frame after it arrived in one
\* chunk, and the send ended with the one onComplete.
C2_FramesAfterTerminalInOneChunk ==
    /\ pc = "done"
    /\ stream = Frame(COMPLETE, Obj(K_FULL, HELLO)) \o Frame(MESSAGE, Obj(K_TOKEN, LO))
    /\ pos = Len(stream)
    /\ buffer = stream
    /\ calls = <<OnComplete("Hello")>>

\* C3: when the body of /api/chat-stream ended before a complete or error
\* frame was decoded, the send has reached a terminal callback.
C3_EarlyCloseReachesTerminal ==
    streamEnd = "closed" => NTerminal(calls) >= 1

\* C4: when the streaming request failed at setup, getBotResponseStreaming
\* has invoked no callback itself and a single-shot request has been issued,
\* whose result alone decides the terminal callback.
C4_SetupFailureFallsBack ==
    streamEnd = "setup" =>
        /\ nChat >= 1
        /\ pc # "done" => calls = <<>>
        /\ pc = "done" => Len(calls) = 1 /\ Len(hist) >= 1

\* Messages getBotResponse rejects with after a request (api.js:91-98).
SingleShotFailures == {TimeoutMsg, NetworkMsg, ServiceMsg, GenericMsg}

\* C5: a send whose streaming attempt failed before a terminal frame ends as
\* a direct getBotResponse call would: a single-shot request was made, and
\* onError carries a single-shot failure message, never the streaming error.
C5_StreamFailureLooksLikeSingleShot ==
    (pc = "done" /\ streamEnd \in {"setup", "read", "closed"}) =>
        /\ nChat >= 1
        /\ Len(Terminals) = 1
        /\ Terminals[1].cb = "onError" => Terminals[1].a \in SingleShotFailures

\* C6: however the stream was cut into chunks, the callbacks made are those
\* of decoding the same text delivered as one chunk.
C6_ChunkingInvariance ==
    (pc = "done" /\ streamEnd \in {"closed", "terminal"}) =>
        calls = DecodeWhole(stream)

\* Sequences of at most MaxFrames - 1 tokens.
TokenSeqs == UNION {[1..n -> {HEL, LO}] : n \in 0..(MaxFrames - 1)}

RECURSIVE MessageFrames(_)
\* The message frames of the tokens ts.
MessageFrames(ts) ==
    IF ts = <<>> THEN <<>>
    ELSE Frame(MESSAGE, Obj(K_TOKEN, Head(ts))) \o MessageFrames(Tail(ts))

RECURSIVE TokenCalls(_, _)
\* onToken(t1, acc t1), onToken(t2, acc t1 t2), ...
TokenCalls(ts, acc) ==
    IF ts = <<>> THEN <<>>
    ELSE <<OnToken(Str(Head(ts)), acc \o Str(Head(ts)))>>
         \o TokenCalls(Tail(ts), acc \o Str(Head(ts)))

\* C7: for a stream of n message frames and one complete frame, onToken
\* fires exactly n times in order, the i-th with (ti, t1...ti), and then
\* onComplete fires once with full_message.
C7_TokensOnceInOrderThenComplete ==
    \A ts \in TokenSeqs :
        (/\ pc = "done"
         /\ streamEnd = "terminal"
         /\ stream = MessageFrames(ts) \o Frame(COMPLETE, Obj(K_FULL, HELLO)))
        => calls = TokenCalls(ts, "") \o <<OnComplete("Hello")>>

\* A line the loop takes for a data: line whose payload is not valid JSON.
IsBadData(raw) ==
    /\ StartsWith(Trim(raw), DATA_PREFIX)
    /\ ~JSONParse(Slice(Trim(raw), 6)).ok

\* The lines of text are blank or data: lines that do not parse, one at least.
OnlyBadData(text) ==
    LET ls == Split(text) IN
    /\ \E i \in DOMAIN ls : IsBadData(ls[i])
    /\ \A i \in DOMAIN ls : Trim(ls[i]) = <<>> \/ IsBadData(ls[i])

C9_TimeoutOneRequestInTotal ==
    \A i \in DOMAIN hist : hist[i].what = "timeout" =>
        /\ nChat = 1
        /\ pc = "done"
        /\ calls = <<OnError(TimeoutMsg)>>

\* C9 amended: once the 120 s timer of an attempt has fired, no request
\* follows that attempt (the requests made are those up to it: one when the
\* first attempt timed out, two when the retry did), its timer is gone, and
\* the call has rejected with the timeout message.
C9_TimeoutNotRetried ==
    \A i \in DOMAIN hist : hist[i].what = "timeout" =>
        /\ i = Len(hist)
        /\ nChat = hist[i].attempt + 1
        /\ timers = {}
        /\ pc = "done"
        /\ calls = <<OnError(TimeoutMsg)>>

\* C9 witness: the timer of the first attempt fired.
C9_FirstAttemptTimedOut ==
    /\ Len(hist) = 1
    /\ hist[1].what = "timeout"
    /\ nChat = 1

\* C10: a first attempt that failed with 'Failed to fetch' reports nothing
\* and is retried; when the second attempt then returned 2xx with a reply, the
\* call has ended with onComplete of that reply and no onError.
C10_RetrySucceedsSilently ==
    (Len(hist) >= 1 /\ hist[1].what = "rejected" /\ hist[1].msg = FailedToFetch) =>
        /\ Len(hist) = 1 => (pc \in {"chat_backoff", "chat_fetch"} /\ calls = <<>>)
        /\ (/\ pc = "done"
            /\ Len(hist) = 2
            /\ hist[2].what = "response"
            /\ RespOk(resp) /\ resp.json /\ resp.reply # Undefined)
           => calls = <<OnComplete(resp.reply)>>

\* C10 witness: the first attempt was refused, the second returned 200 with
\* the reply "hi", and the call has settled.
C10_SecondAttemptReplied ==
    /\ pc = "done"
    /\ Len(hist) = 2
    /\ hist[1].msg = FailedToFetch
    /\ hist[2].what = "response"
    /\ resp.status = 200
    /\ resp.reply = "hi"

\* The human-readable message of an error body: its reply, error or detail.
ServerMessage(r) == OrElse(r.reply, OrElse(r.error, r.detail))

\* The last single-shot attempt ended as what.
LastAttempt(what) == Len(hist) >= 1 /\ hist[Len(hist)].what = what

\* getBotResponse resolved: its last attempt received a response and nothing
\* was thrown after it.
Resolved == LastAttempt("response") /\ hist[Len(hist)].msg # NoMemoryError

\* C11: when /api/chat answered non-2xx with a JSON body that carries a
\* message (reply, error or detail) and the call has failed on it, onError was
\* given that message verbatim.
C11_ServerMessageVerbatim ==
    (/\ pc = "done"
     /\ LastAttempt("thrown")
     /\ ~RespOk(resp)
     /\ resp.json
     /\ ServerMessage(resp) # Undefined)
    => calls = <<OnError(ServerMessage(resp))>>

\* C12: when /api/chat answered 2xx with a JSON body that has no reply member
\* and the call has settled on it, the caller received onError and no
\* onComplete.
C12_MissingReplyIsError ==
    (/\ pc = "done"
     /\ LastAttempt("response")
     /\ RespOk(resp)
     /\ resp.json
     /\ resp.reply = Undefined)
    => (Len(calls) = 1 /\ calls[1].cb = "onError")

\* C13: when callbacks.onToken is not a function, no request goes to
\* /api/chat-stream, onToken is never called and no streaming state is
\* entered; the send ends with the one callback the single-shot call decides:
\* onComplete of the reply it resolved with, or onError of the message it
\* rejected with.
C13_NoOnTokenSingleShotOnly ==
    ~hasOnToken =>
        /\ nStream = 0
        /\ streamEnd = "none"
        /\ pc \notin {"stream_fetch", "stream_read"}
        /\ \A i \in DOMAIN calls : calls[i].cb # "onToken"
        /\ pc # "done" => calls = <<>>
        /\ pc = "done" =>
            /\ nChat >= 1 \/ ~storageOk
            /\ \/ /\ Resolved
                  /\ calls = <<OnComplete(resp.reply)>>
               \/ /\ ~Resolved
                  /\ Len(calls) = 1
                  /\ calls[1].cb = "onError"
                  /\ calls[1].a \in SingleShotFailures \cup {StorageError}

\* C13 witness: without onToken the single-shot call was retried once and
\* then answered 200 with the reply "hi".
C13_SingleShotRepliedWithoutOnToken ==
    /\ ~hasOnToken
    /\ pc = "done"
    /\ nChat = 2
    /\ calls = <<OnComplete("hi")>>

\* C14: where localStorage works, at most one token is ever generated and
\* stored (one on a page that had none, none on a page that had one), the
\* stored token is never replaced, and every request of every send, streaming
\* or single-shot, first attempt or retry, carried the stored token.
C14_OneSessionId ==
    storageOk =>
        /\ minted <= 1
        /\ stored = minted
        /\ sids \subseteq {stored} \ {NoToken}
        /\ Cardinality(sids) <= 1
        /\ pc \notin {"idle", "done"} => sessionId = stored /\ sids = {stored}

\* C14 witness: a second send, single-shot and retried once, has ended and
\* every request so far carried the one stored token.
C14_SecondSendSameSessionId ==
    /\ storageOk
    /\ sends = 2
    /\ ~hasOnToken
    /\ pc = "done"
    /\ nChat = 2
    /\ stored = 1
    /\ sids = {1}

\* C15: once the request of a send has settled (handleSendMessage's await of
\* getBotResponseSmart returned and nothing of the send is pending any more),
\* isLoading is false again: the input is enabled for the next message.
C15_SettledSendEndsLoading ==
    pc = "done" => ~isLoading

\* C16: one getBotResponse call makes at most two requests to /api/chat; a
\* connection failure (fetch rejected) of attempt 0 is followed, after the
\* backoff, by a second request; a connection failure of attempt 1 is the
\* last attempt, and the call has then rejected with the network message.
C16_ConnectionFailureRetriedOnce ==
    /\ nChat <= 2
    /\ \A i \in DOMAIN hist : hist[i].what = "rejected" =>
        IF hist[i].attempt = 0
        THEN pc = "chat_backoff" \/ nChat = 2
        ELSE /\ i = Len(hist)
             /\ nChat = 2
             /\ pc = "done"
             /\ calls = <<OnError(NetworkMsg)>>

\* C17: an attempt that received an HTTP response, whatever its status and
\* the message in its body, is the last request to /api/chat of the call.
C17_NoRetryAfterResponse ==
    \A i \in DOMAIN hist : hist[i].what = "response" =>
        /\ nChat = hist[i].attempt + 1
        /\ pc # "chat_backoff"

\* C18: when getBotResponse has settled, no 120 s abort timer of any of its
\* attempts is pending; the timer of attempt 0 is gone when the retry backoff
\* starts, so that at most the timer of the running attempt is ever pending.
C18_NoTimerLeak ==
    /\ pc = "done" => timers = {}
    /\ pc = "chat_backoff" => timers = {}
    /\ timers \subseteq {attempt}

\* C18 witness: both attempts failed to connect, the call has rejected with
\* the network message and no timer is pending.
C18_SettledAfterRetryNoTimer ==
    /\ pc = "done"
    /\ nChat = 2
    /\ Len(hist) = 2
    /\ hist[1].what = "rejected"
    /\ hist[2].what = "rejected"
    /\ calls = <<OnError(NetworkMsg)>>
    /\ timers = {}

\* C19: while an attempt of getBotResponse waits for the backend, for the
\* response of fetch or for the body of a response, its 120 s abort timer is
\* pending, so that the wait ends when the timer fires even if the backend
\* sends nothing more.
C19_TimerBoundsEveryWait ==
    pc \in {"chat_fetch", "chat_json"} => attempt \in timers

\* C20: a send issues at most one request to /api/chat-stream, and while
\* the streaming attempt is in progress (its fetch or a read of its body is
\* pending) no request to /api/chat has been started; the two kinds of
\* request are never both pending.
C20_StreamOnceNeverBesideSingleShot ==
    /\ nStream <= 1
    /\ pc \in {"stream_fetch", "stream_read"} => nChat = 0
    /\ nChat >= 1 => (nStream = 0 \/ streamEnd # "none")

\* C20 witness: the stream was requested, broke while it was read, and the
\* send has ended with that one request to /api/chat-stream.
C20_BrokenStreamNotRetried ==
    /\ pc = "done"
    /\ streamEnd = "read"
    /\ pos > 0
    /\ nStream = 1
    /\ nChat = 0

\* The event names the loop knows (api.js:168, 172, 176).
KnownEvents == {MESSAGE, COMPLETE, ERROR}

\* A line the loop takes for a data: line whose payload is valid JSON.
IsGoodData(raw) ==
    /\ StartsWith(Trim(raw), DATA_PREFIX)
    /\ JSONParse(Slice(Trim(raw), 6)).ok

\* A line the loop takes for an event: line that names a known event.
NamesKnownEvent(raw) ==
    /\ StartsWith(Trim(raw), EVENT_PREFIX)
    /\ Trim(Slice(Trim(raw), 7)) \in KnownEvents

\* The lines of text hold a valid data: line and no event: line of a known
\* name.
GoodDataNoKnownEvent(text) ==
    LET ls == Split(text) IN
    /\ \E i \in DOMAIN ls : IsGoodData(ls[i])
    /\ \A i \in DOMAIN ls : ~NamesKnownEvent(ls[i])

\* C21: a read that decodes valid data: lines while the current event name
\* is not message, complete or error (no event: line seen yet, or one of
\* another name) and stays so fires no callback, leaves the accumulated
\* reply unchanged and does not end the stream.
C21_DataUnderUnknownEventIgnored ==
    [][(/\ pc = "stream_read"
        /\ pos' > pos
        /\ currentEvent \notin KnownEvents
        /\ GoodDataNoKnownEvent(buffer \o SubSeq(stream, pos + 1, pos')))
       => (/\ calls' = calls
           /\ fullMessage' = fullMessage
           /\ pc' = "stream_read"
           /\ streamEnd' = streamEnd)]_vars

\* C21 witness: a frame of an unknown event name and a frame read before any
\* event: line, both with a token, were decoded and nothing was called or
\* accumulated.
C21_PingAndBareDataDecoded ==
    /\ pc = "stream_read"
    /\ stream = DataOnly(Obj(K_TOKEN, LO)) \o Frame(PING, Obj(K_TOKEN, HEL))
    /\ pos = Len(stream)
    /\ currentEvent = PING
    /\ calls = <<>>
    /\ fullMessage = ""

\* The reply accumulated so far as the caller was told: the second argument
\* of the last onToken, the empty text when there was none.
RECURSIVE SoFar(_)
SoFar(cs) ==
    IF cs = <<>> THEN ""
    ELSE IF cs[Len(cs)].cb = "onToken" THEN cs[Len(cs)].b
    ELSE SoFar(SubSeq(cs, 1, Len(cs) - 1))

\* The terminal callback the frame f is to yield when acc is the reply
\* accumulated before it.
ExpectedTerminal(f, acc) ==
    IF f = Frame(COMPLETE, Obj(K_FULL, HELLO)) THEN OnComplete("Hello")
    ELSE IF f \in {Frame(COMPLETE, Obj(K_FULL, <<>>)), Frame(COMPLETE, EmptyObj)}
    THEN OnComplete(acc)
    ELSE IF f = Frame(ERROR, Obj(K_ERROR, BOOM)) THEN OnError("boom")
    ELSE OnError("Unknown streaming error")

\* C22: when the terminal frame of a stream was decoded, the last callback is
\* onComplete(full_message) for a complete frame with a full_message,
\* onComplete(the reply accumulated from the tokens so far) for one whose
\* full_message is absent or empty, onError(error) for an error frame with
\* an error, and onError('Unknown streaming error') for one without.
C22_TerminalPayloadDefaults ==
    \A p \in QuietStreams, f \in TerminalKinds :
        (stream = p \o f /\ streamEnd = "terminal") =>
            /\ calls # <<>>
            /\ calls[Len(calls)] =
                   ExpectedTerminal(f, SoFar(SubSeq(calls, 1, Len(calls) - 1)))

\* C22 witness: a token and then a complete frame without full_message were
\* decoded, and onComplete received the token accumulated.
C22_CompleteWithoutFullMessage ==
    /\ pc = "done"
    /\ stream = Frame(MESSAGE, Obj(K_TOKEN, HEL)) \o Frame(COMPLETE, EmptyObj)
    /\ calls = <<OnToken("Hel", "Hel"), OnComplete("Hel")>>

\* C23: when localStorage cannot be used, a send that has started has
\* issued its HTTP request (with a fresh token) and has not failed before any
\* request was made.
C23_StorageFailureStillSends ==
    (~storageOk /\ pc # "idle") =>
        /\ nStream + nChat >= 1
        /\ sids # {}

\* C24: the data: line of a frame without an event: line of its own is not
\* dispatched under the event name of an earlier frame.  In the bodies of
\* DecoderSpec the token lo is carried only by such frames, so no onToken
\* has received it.
C24_EventNameEndsWithItsFrame ==
    \A i \in DOMAIN calls :
        calls[i].cb = "onToken" => calls[i].a # Str(LO)

\* C25: the page serializes sends.  The user's next message is taken only
\* when the call of getBotResponseSmart before it has settled and has made
\* its onComplete or onError, so no second call starts between a send and
\* its terminal callback and at most one request is in flight.
C25_SendsSerialized ==
    [][(pc # "idle" /\ pc' = "idle")
          => (pc = "done" /\ NTerminal(calls) >= 1)]_vars

\* C25 happens: a second send is in flight, begun after the first was over.
C25_SecondSendInFlight ==
    /\ sends = 2
    /\ pc \in {"stream_fetch", "stream_read", "chat_fetch", "chat_json",
               "chat_backoff"}
    /\ isLoading

\* The list the callbacks of a step work on: at the send itself, the list
\* with the user's message and the placeholder appended.
ListBefore ==
    IF pc = "idle" THEN messages \o <<UserMsg, ThinkingMsg>> ELSE messages

\* C26: whenever a step makes onToken, onComplete or onError calls, the
\* list keeps its length and every message other than the placeholder this
\* send appended is what it was: the user's own message and all earlier
\* messages stay unchanged.
C26_CallbacksRewriteOnlyPlaceholder ==
    [][NewCalls # <<>>
          => /\ Len(messages') = Len(ListBefore)
             /\ \A i \in DOMAIN ListBefore :
                   i # placeholder' => messages'[i] = ListBefore[i]]_vars

\* C26 happens: the second send streamed a token and completed; its
\* placeholder holds the reply below the first send's two messages, which are
\* as they were.
C26_SecondReplyInPlace ==
    /\ sends = 2
    /\ Len(messages) = 5
    /\ placeholder = 5
    /\ Len(calls) >= 2
    /\ calls[1].cb = "onToken"
    /\ calls[Len(calls)].cb = "onComplete"
    /\ messages[5] = [sender |-> "bot", text |-> calls[Len(calls)].a,
                      typing |-> FALSE]
    /\ messages[4] = UserMsg
    /\ messages[2] = UserMsg

====
